---------------------------- MODULE Spec2Model ----------------------------
(***************************************************************************)
(* Movie bot (src/bot.py): the title-indexing and relevance-ranking core,  *)
(* the in-memory store movies_db, its persistence, the message-ID scan and *)
(* the handlers that drive them.                                           *)
(*                                                                         *)
(* Python str values are TLA+ strings; a character is a string of length   *)
(* 1.  Python None is the string None below (TLC compares only values of   *)
(* one type, and every optional field of the program is str-or-None).      *)
(***************************************************************************)
EXTENDS Integers, Sequences, FiniteSets, TLC

(***************************************************************************)
(* Python built-ins used by the helpers                                    *)
(***************************************************************************)

None == "<None>"

\* bool(x) for a str-or-None value
Truthy(x) == x # None /\ x # ""

Min(a, b) == IF a < b THEN a ELSE b

\* s[i] for 1-based i
Ch(s, i) == SubSeq(s, i, i)

\* s[:n]
Slice(s, n) == SubSeq(s, 1, Min(n, Len(s)))

\* "".join(f[lo..hi])
RECURSIVE Join(_, _, _)
Join(f, lo, hi) ==
    IF lo > hi THEN ""
    ELSE IF lo = hi THEN f[lo]
    ELSE LET mid == (lo + hi) \div 2
         IN  Join(f, lo, mid) \o Join(f, mid + 1, hi)

\* characters matched by \s (and stripped by str.strip, separating str.split)
Whitespace == {" ", "\n", "\t"}

LowerLetters ==
    {"a", "b", "c", "d", "e", "f", "g", "h", "i", "j", "k", "l", "m",
     "n", "o", "p", "q", "r", "s", "t", "u", "v", "w", "x", "y", "z"}

ToLower ==
    ("A" :> "a") @@ ("B" :> "b") @@ ("C" :> "c") @@ ("D" :> "d") @@
    ("E" :> "e") @@ ("F" :> "f") @@ ("G" :> "g") @@ ("H" :> "h") @@
    ("I" :> "i") @@ ("J" :> "j") @@ ("K" :> "k") @@ ("L" :> "l") @@
    ("M" :> "m") @@ ("N" :> "n") @@ ("O" :> "o") @@ ("P" :> "p") @@
    ("Q" :> "q") @@ ("R" :> "r") @@ ("S" :> "s") @@ ("T" :> "t") @@
    ("U" :> "u") @@ ("V" :> "v") @@ ("W" :> "w") @@ ("X" :> "x") @@
    ("Y" :> "y") @@ ("Z" :> "z")

UpperLetters == DOMAIN ToLower

Digits == {"0", "1", "2", "3", "4", "5", "6", "7", "8", "9"}

\* characters matched by \w
WordChars == LowerLetters \cup UpperLetters \cup Digits \cup {"_"}

\* str.lower()
Lower(s) ==
    Join([i \in 1..Len(s) |->
            IF Ch(s, i) \in UpperLetters THEN ToLower[Ch(s, i)] ELSE Ch(s, i)],
         1, Len(s))

\* str.strip()
Strip(s) ==
    LET black == {i \in 1..Len(s) : Ch(s, i) \notin Whitespace}
    IN  IF black = {} THEN ""
        ELSE SubSeq(s, CHOOSE i \in black : \A j \in black : i <= j,
                       CHOOSE i \in black : \A j \in black : i >= j)

\* str.startswith(prefix)
StartsWith(s, prefix) ==
    Len(prefix) <= Len(s) /\ SubSeq(s, 1, Len(prefix)) = prefix

\* sub in s
Contains(s, sub) ==
    \E i \in 1..(Len(s) - Len(sub) + 1) : SubSeq(s, i, i + Len(sub) - 1) = sub

\* where the words of s.split() start: the maximal runs of non-whitespace
WordStarts(s) ==
    {i \in 1..Len(s) : /\ Ch(s, i) \notin Whitespace
                       /\ i = 1 \/ Ch(s, i - 1) \in Whitespace}

\* where the word that starts at i ends
WordEnd(s, i) ==
    CHOOSE j \in i..Len(s) :
        /\ j = Len(s) \/ Ch(s, j + 1) \in Whitespace
        /\ \A k \in (i + 1)..j : Ch(s, k) \notin Whitespace

\* set(s.split())
SplitWords(s) == {SubSeq(s, i, WordEnd(s, i)) : i \in WordStarts(s)}

\* s.split(): the words, left to right
Split(s) ==
    LET starts == WordStarts(s)
        nth(k) == CHOOSE i \in starts : Cardinality({j \in starts : j <= i}) = k
    IN  [k \in 1..Cardinality(starts) |-> SubSeq(s, nth(k), WordEnd(s, nth(k)))]

\* s.split(maxsplit=1): the first word, then the rest without the whitespace
\* that follows the first word
SplitFirst(s) ==
    LET n == Len(s)
        black == {i \in 1..n : Ch(s, i) \notin Whitespace}
        b1 == CHOOSE i \in black : \A j \in black : i <= j
        gaps == {i \in b1..n : Ch(s, i) \in Whitespace}
        e1 == IF gaps = {} THEN n + 1
              ELSE CHOOSE i \in gaps : \A j \in gaps : i <= j
        rest == {i \in black : i > e1}
    IN  IF black = {} THEN <<>>
        ELSE IF rest = {} THEN <<SubSeq(s, b1, e1 - 1)>>
        ELSE <<SubSeq(s, b1, e1 - 1),
               SubSeq(s, CHOOSE i \in rest : \A j \in rest : i <= j, n)>>

\* s.split(sep) for a one-character separator
RECURSIVE SplitOn(_, _)
SplitOn(s, sep) ==
    LET hits == {i \in 1..Len(s) : Ch(s, i) = sep}
    IN  IF hits = {} THEN <<s>>
        ELSE LET p == CHOOSE i \in hits : \A j \in hits : i <= j
             IN  <<SubSeq(s, 1, p - 1)>> \o SplitOn(SubSeq(s, p + 1, Len(s)), sep)

(***************************************************************************)
(* HELPERS (bot.py 123-177)                                                *)
(***************************************************************************)

\* re.sub(r'\s+', ' ', text or "").strip()
clean_text(text) ==
    LET s == IF Truthy(text) THEN text ELSE ""
        white(i) == Ch(s, i) \in Whitespace
    IN  Strip(Join([i \in 1..Len(s) |->
                      IF white(i)
                      THEN (IF i > 1 /\ white(i - 1) THEN "" ELSE " ")
                      ELSE Ch(s, i)],
                   1, Len(s)))

\* the characters re.sub(r'[^\w\s\-:().]', '', line) keeps
TitleChars == WordChars \cup Whitespace \cup {"-", ":", "(", ")", "."}

TitleFilter(line) ==
    Join([i \in 1..Len(line) |->
            IF Ch(line, i) \in TitleChars THEN Ch(line, i) ELSE ""],
         1, Len(line))

TitleCap == 80

TitleLines == 3

BadPrefixes == {"http", "www", "join", "channel"}

\* the loop body's test on one cleaned line
TitleLineOk(line) ==
    /\ Len(line) > 3
    /\ LET lowered == Lower(line)
       IN  \A p \in BadPrefixes : ~StartsWith(lowered, p)

\* the for loop over lines[:3] from line k on, then the fallback after it
RECURSIVE TitleLoop(_, _, _)
TitleLoop(content, lines, k) ==
    IF k > Min(TitleLines, Len(lines)) THEN clean_text(Slice(content, TitleCap))
    ELSE LET line == TitleFilter(clean_text(lines[k]))
         IN  IF TitleLineOk(line) THEN Slice(line, TitleCap)
             ELSE TitleLoop(content, lines, k + 1)

\* text or caption or ""
Content(text, caption) ==
    IF Truthy(text) THEN text ELSE IF Truthy(caption) THEN caption ELSE ""

extract_movie_title(text, caption) ==
    IF ~Truthy(Content(text, caption)) THEN "Unknown Movie"
    ELSE TitleLoop(Content(text, caption),
                   SplitOn(Content(text, caption), "\n"), 1)

stop_words ==
    {"the", "a", "an", "and", "or", "but", "in", "on", "at", "to", "for", "of",
     "with", "by", "from", "as", "is", "was", "are", "were", "been", "be", "have",
     "has", "had", "do", "does", "did", "will", "would", "could", "should", "may",
     "might", "must", "can", "movie", "film", "watch", "download", "free", "full",
     "hd", "quality", "link", "join", "channel", "telegram", "group", "size", "mb",
     "gb"}

\* re.sub(r'http\S+', '', text): a match starts at an "http" that is followed
\* by a non-whitespace character and runs to the end of that run
StripUrls(text) ==
    LET n == Len(text)
        black(i) == Ch(text, i) \notin Whitespace
        start(i) == /\ i + 4 <= n
                    /\ SubSeq(text, i, i + 3) = "http"
                    /\ black(i + 4)
        eaten[k \in 0..n] ==
            IF k = 0 THEN FALSE
            ELSE black(k) /\ (eaten[k - 1] \/ start(k))
    IN  Join([i \in 1..n |-> IF eaten[i] THEN "" ELSE Ch(text, i)], 1, n)

\* re.sub(r'[^\w\s]', ' ', text)
PunctToSpace(text) ==
    Join([i \in 1..Len(text) |->
            IF Ch(text, i) \in WordChars \cup Whitespace THEN Ch(text, i) ELSE " "],
         1, Len(text))

MinKeywordLen == 2

extract_keywords(text) ==
    IF ~Truthy(text) THEN {}
    ELSE LET words == SplitWords(PunctToSpace(StripUrls(Lower(text))))
         IN  {w \in words : Len(w) > MinKeywordLen /\ w \notin stop_words}

ExactScore == 10000

SubstringScore == 5000

PrefixScore == 3000

TitleWordScore == 1000

KeywordScore == 500

TextScore == 100

MediaScore == 50

calculate_match_score(query0, movie_data) ==
    LET query == Strip(Lower(query0))
        query_words == SplitWords(query)
        title == Lower(movie_data.title)
        keywords == movie_data.keywords
        text == Lower(movie_data.text)
        title_matches == Cardinality(query_words \cap SplitWords(title))
        keyword_matches == Cardinality(query_words \cap keywords)
    IN  IF query = title THEN ExactScore
        ELSE (IF Contains(title, query) THEN SubstringScore ELSE 0)
           + (IF StartsWith(title, query) THEN PrefixScore ELSE 0)
           + title_matches * TitleWordScore
           + keyword_matches * KeywordScore
           + (IF Contains(text, query) THEN TextScore ELSE 0)
           + (IF movie_data.media_type \in {"video", "document"}
              THEN MediaScore ELSE 0)

(***************************************************************************)
(* Messages.  A pyrogram Message is a record: id, text and caption (str or *)
(* None), the media attributes video, document and photo (TRUE when the    *)
(* attribute is set), and date, <<>> for None or <<year, month, day>>.     *)
(***************************************************************************)

NoDate == <<>>

\* date.strftime('%Y-%m-%d')
strftime(date) ==
    LET \* zero-padded decimal of width w, as %Y, %m and %d print it
        lead(n, w) == Join([i \in 1..(w - Len(ToString(n))) |-> "0"],
                           1, w - Len(ToString(n))) \o ToString(n)
    IN  lead(date[1], 4) \o "-" \o lead(date[2], 2) \o "-" \o lead(date[3], 2)

TextCap == 500

\* message.text or message.caption or ""
MessageText(message) == Content(message.text, message.caption)

\* the guard of index_message: FALSE when the message is skipped
IndexAccepts(message) ==
    ~(~Truthy(MessageText(message)) /\ ~(message.video \/ message.document))

\* a media kind that tests photo before document
MediaTypePhotoFirst(message) ==
    IF message.video THEN "video"
    ELSE IF message.photo THEN "photo"
    ELSE IF message.document THEN "document"
    ELSE None

\* lines 188-194
MediaType(message) ==
    IF message.video THEN "video"
    ELSE IF message.document THEN "document"
    ELSE IF message.photo THEN "photo"
    ELSE None

\* the dict literal index_message stores
MovieData(message) ==
    [id         |-> message.id,
     title      |-> extract_movie_title(message.text, message.caption),
     text       |-> Slice(MessageText(message), TextCap),
     keywords   |-> extract_keywords(MessageText(message)),
     media_type |-> MediaType(message),
     date       |-> IF message.date # NoDate THEN strftime(message.date) ELSE None]

(***************************************************************************)
(* The store.  movies_db is a dict, which iterates in insertion order: a   *)
(* sequence of entries [k |-> key, v |-> value] with distinct keys.        *)
(***************************************************************************)

Keys(db) == {db[i].k : i \in DOMAIN db}

\* db[key], for key in db
Get(db, key) == db[CHOOSE i \in DOMAIN db : db[i].k = key].v

\* a store that merges: a field that is None in value keeps its old content
SetItemMerge(db, key, value) ==
    IF key \in Keys(db)
    THEN [i \in DOMAIN db |->
            IF db[i].k = key
            THEN [k |-> key,
                  v |-> [f \in DOMAIN value |->
                           IF f # "keywords" /\ f # "id" /\ value[f] = None
                           THEN db[i].v[f] ELSE value[f]]]
            ELSE db[i]]
    ELSE Append(db, [k |-> key, v |-> value])

\* db[key] = value: an existing key keeps its position, a new key goes last
SetItem(db, key, value) ==
    IF key \in Keys(db)
    THEN [i \in DOMAIN db |-> IF db[i].k = key THEN [k |-> key, v |-> value]
                                               ELSE db[i]]
    ELSE Append(db, [k |-> key, v |-> value])

\* index_message(message): the value returned and the store it leaves
index_message(db, message) ==
    IF ~IndexAccepts(message)
    THEN [ret |-> FALSE, db |-> db]
    ELSE [ret |-> TRUE, db |-> SetItem(db, message.id, MovieData(message))]

(***************************************************************************)
(* DATABASE (bot.py 44-76).  The file DB_FILE holds nothing (absent), a    *)
(* JSON document (json: the parsed document, an object as the sequence of  *)
(* its members), or the beginning of one (partial).                        *)
(***************************************************************************)

NoFile == [kind |-> "absent", data |-> <<>>]

\* list(s) for a set s
RECURSIVE SetToList(_)
SetToList(S) ==
    IF S = {} THEN <<>>
    ELSE LET e == CHOOSE e \in S : TRUE
         IN  <<e>> \o SetToList(S \ {e})

\* a loop over the list that starts one element late
ListToSetTail(l) == {l[i] : i \in DOMAIN l \ {1}}

\* set(l) for a list l
ListToSet(l) == {l[i] : i \in DOMAIN l}

DigitVal ==
    ("0" :> 0) @@ ("1" :> 1) @@ ("2" :> 2) @@ ("3" :> 3) @@ ("4" :> 4) @@
    ("5" :> 5) @@ ("6" :> 6) @@ ("7" :> 7) @@ ("8" :> 8) @@ ("9" :> 9)

\* int(s) does not raise ValueError: optional sign, then decimal digits
IsInt(s0) ==
    LET s == Strip(s0)
        body == IF Len(s) > 0 /\ Ch(s, 1) \in {"-", "+"}
                THEN SubSeq(s, 2, Len(s)) ELSE s
    IN  Len(body) > 0 /\ \A i \in 1..Len(body) : Ch(body, i) \in Digits

RECURSIVE DecimalValue(_)
DecimalValue(body) ==
    IF body = "" THEN 0
    ELSE 10 * DecimalValue(SubSeq(body, 1, Len(body) - 1))
         + DigitVal[Ch(body, Len(body))]

\* int(s), for IsInt(s)
ParseInt(s0) ==
    LET s == Strip(s0)
    IN  IF Ch(s, 1) = "-" THEN 0 - DecimalValue(SubSeq(s, 2, Len(s)))
        ELSE IF Ch(s, 1) = "+" THEN DecimalValue(SubSeq(s, 2, Len(s)))
        ELSE DecimalValue(s)

\* the dict save_db hands to json.dump: str keys, keywords as lists
Serializable(db) ==
    [i \in DOMAIN db |->
        [k |-> ToString(db[i].k),
         v |-> [db[i].v EXCEPT !.keywords = SetToList(@)]]]

SaveOutcomes == {"ok", "open_error", "write_error"}

\* save_db(): the file it leaves.  open(DB_FILE, "w") truncates the file, so
\* an error raised while json.dump writes leaves the beginning of a document
save_db(db, file, io) ==
    CASE io = "ok"          -> [kind |-> "json", data |-> Serializable(db)]
      [] io = "open_error"  -> file
      [] io = "write_error" -> [kind |-> "partial", data |-> <<>>]

\* the files one call of save_db() can leave
Saved(db, file) == {save_db(db, file, io) : io \in SaveOutcomes}

\* load_db() returns normally: only FileNotFoundError is caught
LoadOk(file) == file.kind \in {"absent", "json"}

\* movies_db after load_db(), for LoadOk(file)
load_db(file) ==
    IF file.kind = "absent" THEN <<>>
    ELSE [i \in DOMAIN file.data |->
            [k |-> ParseInt(file.data[i].k),
             v |-> [file.data[i].v EXCEPT !.keywords = ListToSet(@)]]]

(***************************************************************************)
(* SEARCH (bot.py 382-403): the ranking of perform_search                  *)
(***************************************************************************)

\* an insertion that puts the element before its equals
RECURSIVE InsertBeforeEquals(_, _)
InsertBeforeEquals(sorted, r) ==
    IF sorted = <<>> THEN <<r>>
    ELSE IF Head(sorted).score > r.score
         THEN <<Head(sorted)>> \o InsertBeforeEquals(Tail(sorted), r)
         ELSE <<r>> \o sorted

\* one element into a list sorted by descending score, after its equals
RECURSIVE InsertByScore(_, _)
InsertByScore(sorted, r) ==
    IF sorted = <<>> THEN <<r>>
    ELSE IF Head(sorted).score >= r.score
         THEN <<Head(sorted)>> \o InsertByScore(Tail(sorted), r)
         ELSE <<r>> \o sorted

\* results.sort(key=lambda x: x['score'], reverse=True): list.sort is stable,
\* and with reverse=True equal keys keep their original order
RECURSIVE SortByScore(_)
SortByScore(results) ==
    IF results = <<>> THEN <<>>
    ELSE InsertByScore(SortByScore(SubSeq(results, 1, Len(results) - 1)),
                       results[Len(results)])

\* a loop that keeps every record, whatever its score
CollectAll(db, query_lower) ==
    [i \in DOMAIN db |->
        [msg_id |-> db[i].k,
         title  |-> db[i].v.title,
         score  |-> calculate_match_score(query_lower, db[i].v)]]

\* the loop over movies_db.items() that collects the scored results
Collect(db, query_lower) ==
    LET scored == [i \in DOMAIN db |->
                     [msg_id |-> db[i].k,
                      title  |-> db[i].v.title,
                      score  |-> calculate_match_score(query_lower, db[i].v)]]
    IN  SelectSeq(scored, LAMBDA r : r.score > 0)

\* results after the sort, for the query perform_search was called with
Rank(db, query) == SortByScore(Collect(db, Lower(query)))

TopN == 5

(***************************************************************************)
(* State                                                                   *)
(***************************************************************************)

VARIABLES
    movies_db,             \* the store
    indexing_in_progress,  \* the module flag
    last_indexed,          \* None or the time the last scan ended
    disk,                  \* the file DB_FILE
    index_task,            \* the /index handlers: where each one is suspended
    search_task            \* the search handler: where it is suspended

vars == <<movies_db, indexing_in_progress, last_indexed, disk, index_task,
          search_task>>

Handlers == {"h1", "h2"}

CHANNEL_USERNAME == "@movies"

\* CHANNEL_USERNAME.lstrip('@')
LStripAt(s) ==
    LET rest == {i \in 1..Len(s) : Ch(s, i) # "@"}
    IN  IF rest = {} THEN ""
        ELSE SubSeq(s, CHOOSE i \in rest : \A j \in rest : i <= j, Len(s))

batch_size == 50

ScanSaveEvery == 50

AutoSaveEvery == 10

DefaultStart == 1

DefaultEnd == 5000

\* a handler that is not running; said is the last text it sent
IdleTask(said) ==
    [pc |-> "idle", start_id |-> 0, end_id |-> 0, msg_id |-> 0, indexed |-> 0,
     count |-> 0, log |-> <<>>, said |-> said]

IdleSearch(said) ==
    [pc |-> "idle", query |-> "", results |-> <<>>, selected |-> <<>>,
     copied |-> 0, said |-> said]

\* lines 221-225: index_message returned r; save when the store's size is a
\* multiple of 10
AutoIndexed(r) ==
    /\ movies_db' = r.db
    /\ IF r.ret /\ Len(r.db) % AutoSaveEvery = 0
       THEN disk' \in Saved(r.db, disk)
       ELSE disk' = disk
    /\ UNCHANGED <<indexing_in_progress, last_indexed, index_task,
                   search_task>>

\* the state after the module is loaded and startup() has run load_db()
InitFrom(file) ==
    /\ disk = file
    /\ movies_db = load_db(file)
    /\ indexing_in_progress = FALSE
    /\ last_indexed = None
    /\ index_task = [h \in Handlers |-> IdleTask("")]
    /\ search_task = IdleSearch("")

Init == InitFrom(NoFile)

(***************************************************************************)
(* AUTO-INDEXING NEW POSTS (bot.py 213-227)                                *)
(***************************************************************************)

auto_index_channel_post(message, username) ==
    IF username # LStripAt(CHANNEL_USERNAME)
    THEN UNCHANGED vars
    ELSE AutoIndexed(index_message(movies_db, message))

(***************************************************************************)
(* MESSAGE ID SCANNING (bot.py 233-284) and /index (bot.py 329-350)        *)
(***************************************************************************)

\* index_command up to its first await: the busy check and the parse
index_command(h, text) ==
    LET parts == Split(text)
        t == index_task[h]
        go(a, b) == [t EXCEPT !.pc = "reply", !.start_id = a, !.end_id = b,
                              !.said = ""]
    IN  /\ t.pc = "idle"
        /\ index_task' = [index_task EXCEPT ![h] =
              IF indexing_in_progress THEN IdleTask("busy")
              ELSE IF Len(parts) >= 3
                   THEN IF IsInt(parts[2]) /\ IsInt(parts[3])
                        THEN go(ParseInt(parts[2]), ParseInt(parts[3]))
                        ELSE IdleTask("invalid")
                   ELSE go(DefaultStart, DefaultEnd)]
        /\ UNCHANGED <<movies_db, indexing_in_progress, last_indexed, disk,
                       search_task>>

\* reply_text returned: scan_by_message_ids starts and awaits get_chat
scan_start(h) ==
    /\ index_task[h].pc = "reply"
    /\ indexing_in_progress' = TRUE
    /\ index_task' = [index_task EXCEPT ![h].pc = "get_chat",
                                        ![h].said = "scanning"]
    /\ UNCHANGED <<movies_db, last_indexed, disk, search_task>>

\* a return that leaves the flag as it is
ScanReturnKeepsFlag(h, t, files) ==
    /\ index_task' = [index_task EXCEPT ![h] =
                         [t EXCEPT !.pc = "edit_text", !.count = t.indexed]]
    /\ last_indexed' = "time"
    /\ disk' \in UNION {Saved(movies_db', file) : file \in files}
    /\ UNCHANGED indexing_in_progress

\* the loop is over: lines 274-278, then the finally block
ScanReturn(h, t, files) ==
    /\ index_task' = [index_task EXCEPT ![h] =
                         [t EXCEPT !.pc = "edit_text", !.count = t.indexed]]
    /\ last_indexed' = "time"
    /\ disk' \in UNION {Saved(movies_db', file) : file \in files}
    /\ indexing_in_progress' = FALSE

\* the next iteration of the for loop, or its end
ScanNext(h, t, files) ==
    IF t.msg_id + 1 <= t.end_id
    THEN /\ index_task' = [index_task EXCEPT ![h] =
                [t EXCEPT !.pc = "get_messages", !.msg_id = t.msg_id + 1]]
         /\ disk' \in files
         /\ UNCHANGED <<indexing_in_progress, last_indexed>>
    ELSE ScanReturn(h, t, files)

\* get_chat returned or raised
scan_get_chat(h, ok) ==
    LET t == index_task[h]
    IN  /\ t.pc = "get_chat"
        /\ UNCHANGED <<movies_db, search_task>>
        /\ IF ~ok
           THEN /\ index_task' = [index_task EXCEPT ![h] =
                       [t EXCEPT !.pc = "edit_text", !.count = 0]]
                /\ indexing_in_progress' = FALSE
                /\ UNCHANGED <<last_indexed, disk>>
           ELSE ScanNext(h, [t EXCEPT !.indexed = 0, !.msg_id = t.start_id - 1],
                         {disk})

\* a Message that stands for "no message" in a response that carries none
NoMessage ==
    [id |-> 0, text |-> None, caption |-> None, video |-> FALSE,
     document |-> FALSE, photo |-> FALSE, date |-> NoDate]

ResponseKinds == {"message", "empty", "flood", "rpc", "error"}

\* a counter of the messages fetched, not of the messages indexed
CountedFetched(indexed, ret) == indexed + 1

\* lines 253-254: indexed after index_message returned ret
Counted(indexed, ret) == IF ret THEN indexed + 1 ELSE indexed

\* get_messages returned or raised: one pass through the loop body
ScanFetched(h, resp, r) ==
    LET t == index_task[h]
        got == resp.kind = "message"
        indexed == Counted(t.indexed, r.ret)
        files == IF r.ret /\ indexed % ScanSaveEvery = 0
                 THEN Saved(r.db, disk) ELSE {disk}
        outcome == IF got THEN (IF r.ret THEN "indexed" ELSE "skipped")
                   ELSE resp.kind
        t1 == [t EXCEPT !.indexed = indexed,
                        !.log = Append(@, [id |-> t.msg_id, outcome |-> outcome])]
    IN  /\ movies_db' = r.db
        /\ UNCHANGED search_task
        /\ IF resp.kind = "flood"
           THEN /\ index_task' = [index_task EXCEPT ![h] =
                                     [t1 EXCEPT !.pc = "flood_sleep"]]
                /\ UNCHANGED <<indexing_in_progress, last_indexed, disk>>
           ELSE IF resp.kind \in {"message", "empty"} /\ t.msg_id % batch_size = 0
           THEN /\ index_task' = [index_task EXCEPT ![h] =
                                     [t1 EXCEPT !.pc = "batch_sleep"]]
                /\ disk' \in files
                /\ UNCHANGED <<indexing_in_progress, last_indexed>>
           ELSE ScanNext(h, t1, files)

\* lines 250-253: the request for the id the loop is at, and index_message
\* of the message it returns
scan_get_messages(h, resp) ==
    /\ index_task[h].pc = "get_messages"
    /\ resp.kind = "message" => resp.msg.id = index_task[h].msg_id
    /\ ScanFetched(h, resp,
                   IF resp.kind = "message"
                   THEN index_message(movies_db, resp.msg)
                   ELSE [ret |-> FALSE, db |-> movies_db])

\* asyncio.sleep returned (line 262 or line 266)
scan_wake(h) ==
    /\ index_task[h].pc \in {"batch_sleep", "flood_sleep"}
    /\ UNCHANGED <<movies_db, search_task>>
    /\ ScanNext(h, index_task[h], {disk})

\* scan_by_message_ids returned: index_command edits its status message
index_done(h) ==
    /\ index_task[h].pc = "edit_text"
    /\ index_task' = [index_task EXCEPT ![h] = IdleTask("complete")]
    /\ UNCHANGED <<movies_db, indexing_in_progress, last_indexed, disk,
                   search_task>>

(***************************************************************************)
(* The process (bot.py 430-439)                                            *)
(***************************************************************************)

\* a scan_by_message_ids called by handler h is between its first line and
\* its finally block
ScanActive(h) ==
    index_task[h].pc \in {"get_chat", "get_messages", "batch_sleep",
                          "flood_sleep"}

\* the process is stopped while a scan runs and is started again: the module
\* globals are initialised and startup() runs load_db().  When load_db raises
\* (it catches FileNotFoundError only), startup() and main() raise too and
\* no bot runs: no state follows
interrupt ==
    /\ \E h \in Handlers : ScanActive(h)
    /\ LoadOk(disk)
    /\ movies_db' = load_db(disk)
    /\ indexing_in_progress' = FALSE
    /\ last_indexed' = None
    /\ index_task' = [h \in Handlers |-> IdleTask("")]
    /\ search_task' = IdleSearch("")
    /\ UNCHANGED disk

(***************************************************************************)
(* /search and plain text (bot.py 352-410)                                 *)
(***************************************************************************)

\* perform_search up to its first await
perform_search(query) ==
    /\ search_task' = IF movies_db = <<>> THEN IdleSearch("empty")
                      ELSE [IdleSearch("searching") EXCEPT !.pc = "searching",
                                                           !.query = query]
    /\ UNCHANGED <<movies_db, indexing_in_progress, last_indexed, disk,
                   index_task>>

\* handle_text: a private text that does not start with "/"
handle_text(text) ==
    /\ search_task.pc = "idle"
    /\ ~StartsWith(text, "/")
    /\ perform_search(Strip(text))

\* search_command: /search <name>
search_command(text) ==
    LET parts == SplitFirst(text)
    IN  /\ search_task.pc = "idle"
        /\ IF Len(parts) < 2
           THEN /\ search_task' = IdleSearch("usage")
                /\ UNCHANGED <<movies_db, indexing_in_progress, last_indexed,
                               disk, index_task>>
           ELSE perform_search(Strip(parts[2]))

\* lines 382-391: score, sort, then await search_msg.delete()
search_rank ==
    /\ search_task.pc = "searching"
    /\ search_task' = [search_task EXCEPT
                          !.pc = "deleting",
                          !.results = Rank(movies_db, search_task.query)]
    /\ UNCHANGED <<movies_db, indexing_in_progress, last_indexed, disk,
                   index_task>>

\* lines 393-400: no results, or the summary of results[:5]
search_summary ==
    /\ search_task.pc = "deleting"
    /\ search_task' =
          IF search_task.results = <<>> THEN IdleSearch("none")
          ELSE [search_task EXCEPT !.pc = "get_chat", !.said = "summary",
                                   !.selected = Slice(search_task.results, TopN)]
    /\ UNCHANGED <<movies_db, indexing_in_progress, last_indexed, disk,
                   index_task>>

\* line 402: get_chat returned, or raised and ended the handler
search_get_chat(ok) ==
    /\ search_task.pc = "get_chat"
    /\ search_task' = IF ok THEN [search_task EXCEPT !.pc = "copying"]
                      ELSE IdleSearch("failed")
    /\ UNCHANGED <<movies_db, indexing_in_progress, last_indexed, disk,
                   index_task>>

\* lines 403-410: one copy_message and the sleep after it, per result
search_copy ==
    /\ search_task.pc = "copying"
    /\ search_task' =
          IF search_task.copied + 1 = Len(search_task.selected)
          THEN IdleSearch("done")
          ELSE [search_task EXCEPT !.copied = @ + 1]
    /\ UNCHANGED <<movies_db, indexing_in_progress, last_indexed, disk,
                   index_task>>

(***************************************************************************)
(* The inputs of the specifications                                        *)
(***************************************************************************)

Date1 == <<2024, 1, 5>>

\* a text message
TextPost(id, text, date) ==
    [id |-> id, text |-> text, caption |-> None, video |-> FALSE,
     document |-> FALSE, photo |-> FALSE, date |-> date]

\* a media message: media is the set of media attributes that are set
MediaPost(id, caption, media, date) ==
    [id |-> id, text |-> None, caption |-> caption, video |-> "video" \in media,
     document |-> "document" \in media, photo |-> "photo" \in media,
     date |-> date]

\* what get_messages(chat.id, msg_id) can do, given the messages that exist
Responses(messages, msg_id) ==
    {[kind |-> "message", msg |-> m] : m \in {x \in messages : x.id = msg_id}}
    \cup {[kind |-> k, msg |-> NoMessage] : k \in ResponseKinds \ {"message"}}

Usernames == {"movies", "other"}

(***************************************************************************)
(* Spec: new posts, one /index handler and its scan, over a small channel  *)
(***************************************************************************)

\* the largest message id an /index command names
MaxId == 2

\* the posts of the channel: post 1 in two versions (it was edited), post 2 as
\* a text or as a bare photo; a post at any other id has been deleted
Messages ==
    {TextPost(1, "Heist", Date1),
     MediaPost(1, "Money Heist", {"video"}, NoDate),
     TextPost(2, "The Heist", Date1),
     MediaPost(2, None, {"photo"}, Date1)}

IndexCommands ==
    {"/index " \o ToString(a) \o " " \o ToString(b) : a, b \in 1..MaxId}
    \cup {"/index 1 x"}

AutoIndex ==
    \E m \in Messages, u \in Usernames : auto_index_channel_post(m, u)

IndexCommand == \E text \in IndexCommands : index_command("h1", text)

ScanStart == scan_start("h1")

ScanGetChat == \E ok \in BOOLEAN : scan_get_chat("h1", ok)

ScanGetMessages ==
    \E resp \in Responses(Messages, index_task["h1"].msg_id) :
        scan_get_messages("h1", resp)

ScanWake == scan_wake("h1")

IndexDone == index_done("h1")

Next ==
    \/ AutoIndex
    \/ IndexCommand
    \/ ScanStart
    \/ ScanGetChat
    \/ ScanGetMessages
    \/ ScanWake
    \/ IndexDone

Spec == Init /\ [][Next]_vars

(***************************************************************************)
(* SpecSearch: new posts and the search handler                            *)
(***************************************************************************)

SearchPosts ==
    {TextPost(1, "Me, Us 2", Date1),
     MediaPost(1, "Money Heist", {"video"}, Date1),
     MediaPost(1, "Iron Man", {"video"}, Date1),
     MediaPost(2, "Money Heist 2", {"video"}, Date1),
     TextPost(2, "Iron Man", Date1)}

\* the private texts a user sends
Queries == {"me us", "Money Heist", " money heist ", "heist", "zzz"}

SearchCommands == {"/search heist", "/search  Money Heist ", "/search"}

SearchAutoIndex ==
    \E m \in SearchPosts, u \in Usernames : auto_index_channel_post(m, u)

HandleText == \E text \in Queries : handle_text(text)

SearchCommand == \E text \in SearchCommands : search_command(text)

SearchRank == search_rank

SearchSummary == search_summary

SearchGetChat == \E ok \in BOOLEAN : search_get_chat(ok)

SearchCopy == search_copy

NextSearch ==
    \/ SearchAutoIndex
    \/ HandleText
    \/ SearchCommand
    \/ SearchRank
    \/ SearchSummary
    \/ SearchGetChat
    \/ SearchCopy

SpecSearch == Init /\ [][NextSearch]_vars

(***************************************************************************)
(* SpecRank: the search handler over a store loaded from the file that an  *)
(* earlier run saved, and one new post                                     *)
(***************************************************************************)

\* the number of posts the earlier run indexed
MaxPosts == 7

\* post i of the channel
RankPost(i) ==
    CASE i % 4 = 1 -> MediaPost(i, "Money Heist", {"video"}, Date1)
      [] i % 4 = 2 -> TextPost(i, "Heist", Date1)
      [] i % 4 = 3 -> MediaPost(i, "The Heist Movie", {"document"}, NoDate)
      [] i % 4 = 0 -> TextPost(i, "Iron Man", Date1)

\* the store after index_message of the posts ids[j], ids[j+1], ... on db
RECURSIVE IndexAll(_, _, _)
IndexAll(db, ids, j) ==
    IF j > Len(ids) THEN db
    ELSE IndexAll(index_message(db, RankPost(ids[j])).db, ids, j + 1)

\* the first n ids in the order r+1, ..., MaxPosts, 1, ..., r: the posts
\* from r+1 on were indexed as they were published, then a scan from 1 on
\* added older ones
RankOrder(r, n) == [j \in 1..n |-> ((j + r - 1) % MaxPosts) + 1]

RankFiles ==
    {save_db(IndexAll(<<>>, RankOrder(r, n), 1), NoFile, "ok") :
        r \in 0..(MaxPosts - 1), n \in 1..MaxPosts}

InitRank == \E file \in RankFiles : InitFrom(file)

RankAutoIndex == auto_index_channel_post(RankPost(MaxPosts + 1), "movies")

NextRank ==
    \/ RankAutoIndex
    \/ HandleText
    \/ SearchCommand
    \/ SearchRank
    \/ SearchSummary
    \/ SearchGetChat
    \/ SearchCopy

SpecRank == InitRank /\ [][NextRank]_vars

(***************************************************************************)
(* SpecIndex: new posts with varied contents                               *)
(***************************************************************************)

\* a line of 100 characters, its newline included
Line100 ==
    "Heist (2001) 1080p BluRay x264 AAC ESub Dual Audio Hindi English 2.1GB Download Link Is Given Below\n"

\* a text longer than TextCap: its last word lies beyond the cap
LongText == Line100 \o Line100 \o Line100 \o Line100 \o Line100 \o "uncut"

\* a first line longer than TitleCap
LongLine == Line100 \o "Heist"

IndexTexts ==
    {"Avengers: Endgame (2019)\nAction movie",
     " ",
     "\n\t",
     "ab",
     "!!!",
     "Join @movies\nhttp://t.me/movies\nwww.movies.example\nHeist",
     "my_file.mkv http://x.example/a?b=1 Heist,HEIST",
     LongText,
     LongLine}

IndexPosts ==
    {TextPost(1, text, Date1) : text \in IndexTexts}
    \cup {MediaPost(2, None, {"document"}, NoDate),
          MediaPost(2, None, {"photo"}, Date1),
          MediaPost(2, " ", {"photo"}, Date1),
          MediaPost(2, "Heist", {"video", "document", "photo"}, Date1),
          TextPost(3, "Heist", NoDate),
          MediaPost(3, "Iron Man\nHeist", {"document"}, Date1)}

IndexAutoIndex ==
    \E m \in IndexPosts, u \in Usernames : auto_index_channel_post(m, u)

NextIndex == IndexAutoIndex

SpecIndex == Init /\ [][NextIndex]_vars

(***************************************************************************)
(* SpecRestart: Spec, with the process stopped in the middle of a scan and *)
(* started again                                                           *)
(***************************************************************************)

Interrupt == interrupt

NextRestart ==
    \/ AutoIndex
    \/ IndexCommand
    \/ ScanStart
    \/ ScanGetChat
    \/ ScanGetMessages
    \/ ScanWake
    \/ IndexDone
    \/ Interrupt

SpecRestart == Init /\ [][NextRestart]_vars

(***************************************************************************)
(* SpecMedia: new posts and scans over a channel whose post 1 is edited to *)
(* carry every combination of the media attributes, with and without a     *)
(* caption                                                                 *)
(***************************************************************************)

MediaPosts ==
    {MediaPost(1, caption, media, Date1) :
        caption \in {None, "Heist"},
        media \in SUBSET {"video", "document", "photo"}}

MediaCommands == {"/index 1 1"}

MediaAutoIndex ==
    \E m \in MediaPosts, u \in Usernames : auto_index_channel_post(m, u)

MediaIndexCommand == \E text \in MediaCommands : index_command("h1", text)

MediaScanGetMessages ==
    \E resp \in Responses(MediaPosts, index_task["h1"].msg_id) :
        scan_get_messages("h1", resp)

NextMedia ==
    \/ MediaAutoIndex
    \/ MediaIndexCommand
    \/ ScanStart
    \/ ScanGetChat
    \/ MediaScanGetMessages
    \/ ScanWake
    \/ IndexDone

SpecMedia == Init /\ [][NextMedia]_vars

(***************************************************************************)
(* SpecAuto: new posts arriving one after the other, over the store that   *)
(* the scan of an earlier run saved                                        *)
(***************************************************************************)

\* the id of the last post the channel publishes
MaxAuto == 14

\* the files an earlier run left: none, or the posts 1..n saved at the end of
\* its scan
AutoFiles ==
    {NoFile} \cup
    {save_db(IndexAll(<<>>, [j \in 1..n |-> j], 1), NoFile, "ok") :
        n \in 1..(AutoSaveEvery - 1)}

InitAuto == \E file \in AutoFiles : InitFrom(file)

\* the channel's next post, or its newest one delivered again
AutoNewPost ==
    \E i \in 1..MaxAuto, u \in Usernames :
        /\ i \in {Len(movies_db), Len(movies_db) + 1}
        /\ auto_index_channel_post(RankPost(i), u)

NextAuto == AutoNewPost

SpecAuto == InitAuto /\ [][NextAuto]_vars

(***************************************************************************)
(* SpecRace: two /index commands handled at the same time.  The dispatcher *)
(* runs each update's handler as its own task, and a task gives way to the *)
(* others at each await                                                    *)
(***************************************************************************)

RacePosts == {TextPost(1, "Heist", Date1)}

\* the largest message id an /index command of SpecRace names
MaxRaceId == 1

RaceCommands == {"/index 1 " \o ToString(b) : b \in 1..MaxRaceId}

RaceIndexCommand ==
    \E h \in Handlers, text \in RaceCommands : index_command(h, text)

RaceScanStart == \E h \in Handlers : scan_start(h)

RaceScanGetChat == \E h \in Handlers, ok \in BOOLEAN : scan_get_chat(h, ok)

RaceScanGetMessages ==
    \E h \in Handlers :
        \E resp \in Responses(RacePosts, index_task[h].msg_id) :
            scan_get_messages(h, resp)

RaceScanWake == \E h \in Handlers : scan_wake(h)

RaceIndexDone == \E h \in Handlers : index_done(h)

NextRace ==
    \/ RaceIndexCommand
    \/ RaceScanStart
    \/ RaceScanGetChat
    \/ RaceScanGetMessages
    \/ RaceScanWake
    \/ RaceIndexDone

SpecRace == Init /\ [][NextRace]_vars

(***************************************************************************)
(* SpecLive: SpecRace where every awaited call of a scan and of its        *)
(* handler eventually returns: get_chat, get_messages, asyncio.sleep and   *)
(* edit_text                                                               *)
(***************************************************************************)

\* the get_messages call that handler h awaits returns or raises
GetMessagesReturns(h) ==
    \E resp \in Responses(RacePosts, index_task[h].msg_id) :
        scan_get_messages(h, resp)

\* weak fairness of each await.  That of get_messages is written out: the
\* step is enabled exactly when the handler is at the call, since a response
\* always exists and every response changes the handler
AwaitsReturn(h) ==
    /\ WF_vars(\E ok \in BOOLEAN : scan_get_chat(h, ok))
    /\ \/ []<>(index_task[h].pc # "get_messages")
       \/ []<><<GetMessagesReturns(h)>>_vars
    /\ WF_vars(scan_wake(h))
    /\ WF_vars(index_done(h))

SpecLive == Init /\ [][NextRace]_vars /\ \A h \in Handlers : AwaitsReturn(h)

(***************************************************************************)
(* Properties of Spec                                                      *)
(***************************************************************************)

\* the step is a call of index_message(m) with the result r, from the
\* auto-index handler or from the loop of a scan
IndexCall(m, r) ==
    \/ /\ index_task' = index_task
       /\ AutoIndexed(r)
    \/ \E h \in Handlers :
          /\ index_task[h].pc = "get_messages"
          /\ index_task[h].msg_id = m.id
          /\ ScanFetched(h, [kind |-> "message", msg |-> m], r)

\* the record derived from message m, field by field
Derived(m) ==
    [id         |-> m.id,
     title      |-> extract_movie_title(m.text, m.caption),
     text       |-> Slice(Content(m.text, m.caption), TextCap),
     keywords   |-> extract_keywords(Content(m.text, m.caption)),
     media_type |-> IF m.video THEN "video"
                    ELSE IF m.document THEN "document"
                    ELSE IF m.photo THEN "photo" ELSE None,
     date       |-> IF m.date = NoDate THEN None ELSE strftime(m.date)]

\* C6 (one message): a step that is a call index_message(m) returning True
\* leaves the store mapping m.id to exactly the record derived from m, whose
\* id field is its key, with every other entry as it was
C6_Replaces(m, r) ==
    IndexCall(m, r) /\ r.ret
    => /\ Keys(movies_db') = Keys(movies_db) \cup {m.id}
       /\ Cardinality(Keys(movies_db')) = Len(movies_db')
       /\ Get(movies_db', m.id) = Derived(m)
       /\ Get(movies_db', m.id).id = m.id
       /\ \A k \in Keys(movies_db) \ {m.id} :
            Get(movies_db', k) = Get(movies_db, k)

\* C6: no step removes an entry of the store or moves a key; and a step that
\* is a call index_message(m) returning True replaces the whole record of
\* m.id and nothing else
C6_IndexReplacesWholeRecord ==
    [][/\ \A i \in DOMAIN movies_db :
            i \in DOMAIN movies_db' /\ movies_db'[i].k = movies_db[i].k
       /\ vars' # vars
          => \A m \in Messages :
                C6_Replaces(m, index_message(movies_db, m))]_vars

\* C6 witness: post 1 was saved as the text "Heist" and has since been
\* re-indexed as the captioned video, next to the entry of post 2
C6_Witness ==
    /\ disk.kind = "json"
    /\ \E i \in DOMAIN disk.data :
          disk.data[i].k = "1" /\ disk.data[i].v.title = "Heist"
                               /\ disk.data[i].v.date = "2024-01-05"
    /\ Keys(movies_db) = {1, 2}
    /\ Get(movies_db, 1) = [id |-> 1, title |-> "Money Heist",
                            text |-> "Money Heist",
                            keywords |-> {"money", "heist"},
                            media_type |-> "video", date |-> None]

\* a scan has returned to index_command
Returned(t) == t.pc = "edit_text"

\* C9: when a scan has returned, every request of it that raised FloodWait
\* was followed by another request for the same message id that did not
C9_FloodWaitIsRetried ==
    \A h \in Handlers :
        Returned(index_task[h]) =>
            \A i \in DOMAIN index_task[h].log :
                index_task[h].log[i].outcome = "flood" =>
                    \E j \in DOMAIN index_task[h].log :
                        /\ j > i
                        /\ index_task[h].log[j].id = index_task[h].log[i].id
                        /\ index_task[h].log[j].outcome # "flood"

\* C10 (state): when a scan whose get_chat succeeded has returned, it has
\* requested every id of its range, each once and in order, whatever ids
\* were missing, and it returns the number of ids index_message accepted
C10_Returned ==
    \A h \in Handlers :
        LET t == index_task[h]
        IN  Returned(t) =>
              /\ t.count = Cardinality({i \in DOMAIN t.log :
                                           t.log[i].outcome = "indexed"})
              /\ t.log # <<>> =>
                    /\ Len(t.log) = t.end_id - t.start_id + 1
                    /\ \A i \in DOMAIN t.log : t.log[i].id = t.start_id + i - 1

\* C10 (step): the pass of the loop that finds a message missing (an empty
\* message or RPCError) leaves the store as it was and, unless the id was
\* the last one of the range, goes on to the next id
C10_Skip ==
    \A h \in Handlers :
        LET t == index_task[h]
            u == index_task'[h]
        IN  /\ Len(u.log) = Len(t.log) + 1
            /\ u.log[Len(u.log)].outcome \in {"empty", "rpc"}
            => /\ movies_db' = movies_db
               /\ u.indexed = t.indexed
               /\ IF t.msg_id < t.end_id
                  THEN u.pc \in {"get_messages", "batch_sleep"}
                       /\ u.pc = "get_messages" => u.msg_id = t.msg_id + 1
                  ELSE Returned(u)

\* C10: a missing message is skipped without changing the store, the scan
\* goes on to every later id of the range, and the value returned is the
\* number of ids for which index_message returned True
C10_MissingMessagesAreSkipped == [] C10_Returned /\ [][C10_Skip]_vars

\* C10 witness: a scan of ids 1..2 found message 1 missing, indexed message
\* 2, and returned 1
C10_Witness ==
    \E h \in Handlers :
        /\ Returned(index_task[h])
        /\ index_task[h].log = <<[id |-> 1, outcome |-> "rpc"],
                                 [id |-> 2, outcome |-> "indexed"]>>
        /\ index_task[h].count = 1
        /\ 1 \notin Keys(movies_db)
        /\ 2 \in Keys(movies_db)

(***************************************************************************)
(* Properties of SpecSearch                                                *)
(***************************************************************************)

\* the score perform_search gives record i of the store for the query of
\* the search in flight (line 385 lowers the query before the loop)
ScoreOf(i) ==
    calculate_match_score(Lower(search_task.query), movies_db[i].v)

\* the query of the search in flight equals the title, case-insensitively
TitleEquals(title) == Lower(search_task.query) = Lower(title)

\* C1: for the query of a search and every record of the store, the score
\* is 10000 if and only if the lowercased query equals the lowercased title
C1_ExactScoreIffTitleEquals ==
    search_task.pc = "searching" =>
        \A i \in DOMAIN movies_db :
            ScoreOf(i) = 10000 <=> TitleEquals(movies_db[i].v.title)

\* C2: in the result list of a search, a record whose title equals the
\* query case-insensitively has a strictly higher score than, and stands
\* before, every record whose title does not equal it
C2_ExactMatchRanksFirst ==
    search_task.pc = "deleting" =>
        \A a, b \in DOMAIN search_task.results :
            /\ TitleEquals(search_task.results[a].title)
            /\ ~TitleEquals(search_task.results[b].title)
            => /\ search_task.results[a].score > search_task.results[b].score
               /\ a < b

\* the query does not match the record: it is a substring neither of the
\* title nor of the text, and none of its words is a word of the title or
\* a keyword
NoMatch(query, movie_data) ==
    /\ ~Contains(Lower(movie_data.title), Lower(query))
    /\ ~Contains(Lower(movie_data.text), Lower(query))
    /\ SplitWords(Lower(query)) \cap SplitWords(Lower(movie_data.title)) = {}
    /\ SplitWords(Lower(query)) \cap movie_data.keywords = {}

\* C3: for the query of a search and every record of the store that the
\* query does not match, the score is 0, whatever the record's media kind
C3_NoMatchScoresZero ==
    search_task.pc = "searching" =>
        \A i \in DOMAIN movies_db :
            NoMatch(search_task.query, movies_db[i].v) => ScoreOf(i) = 0

(***************************************************************************)
(* Properties of SpecRank                                                  *)
(***************************************************************************)

\* the position of key in the store's iteration order
Pos(db, key) == CHOOSE i \in DOMAIN db : db[i].k = key

\* the step is the scoring and sorting of perform_search
RankStep == search_task.pc = "searching" /\ search_task'.pc = "deleting"

\* the step is the selection of results[:5]
SelectStep == search_task.pc = "deleting" /\ search_task'.pc = "get_chat"

\* r stands before s in the ranking: a higher score, or the same score and
\* an earlier place in the store
Before(r, s) ==
    \/ r.score > s.score
    \/ /\ r.score = s.score
       /\ Pos(movies_db, r.msg_id) < Pos(movies_db, s.msg_id)

\* C4: the result list a search builds holds the records with their scores
\* for the query, in descending order of score, records of equal score in
\* the order of the store
C4_ResultsSortedStable ==
    [][RankStep =>
         LET res == search_task'.results
         IN  /\ \A a \in DOMAIN res :
                  /\ res[a].msg_id \in Keys(movies_db)
                  /\ res[a].score = ScoreOf(Pos(movies_db, res[a].msg_id))
             /\ \A a, b \in DOMAIN res : a < b => Before(res[a], res[b])]_vars

\* C4 witness: a result list with two records of equal score and a record
\* of another score
C4_Witness ==
    /\ search_task.pc = "deleting"
    /\ \E a, b, c \in DOMAIN search_task.results :
          /\ a < b
          /\ search_task.results[a].score = search_task.results[b].score
          /\ search_task.results[c].score # search_task.results[a].score

\* C5: the result list holds exactly the records of the store whose score
\* is greater than 0, each once; the records selected for delivery are at
\* most 5 of them, the first of the list, so that a result left out has a
\* lower score than every selected one, or the same score and a later place
\* in the store
C5_SelectsTopFivePositive ==
    [][/\ RankStep =>
            LET res == search_task'.results
            IN  /\ {res[a].msg_id : a \in DOMAIN res}
                     = {movies_db[i].k : i \in {j \in DOMAIN movies_db :
                                                   ScoreOf(j) > 0}}
                /\ Cardinality({res[a].msg_id : a \in DOMAIN res}) = Len(res)
                /\ \A a \in DOMAIN res : res[a].score > 0
       /\ SelectStep =>
            LET res == search_task.results
                sel == search_task'.selected
            IN  /\ Len(sel) = Min(5, Len(res))
                /\ \A a \in DOMAIN sel : sel[a] = res[a] /\ sel[a].score > 0
                /\ \A b \in DOMAIN res \ DOMAIN sel :
                     \A a \in DOMAIN sel : Before(sel[a], res[b])]_vars

\* C5 witness: five records are selected, a sixth result is left out that
\* ties with the last one selected, and the store holds a record that
\* scores 0
C5_Witness ==
    /\ search_task.pc = "get_chat"
    /\ Len(search_task.selected) = 5
    /\ Len(search_task.results) > 5
    /\ search_task.results[6].score = search_task.selected[5].score
    /\ \E i \in DOMAIN movies_db : ScoreOf(i) = 0

(***************************************************************************)
(* Properties of SpecIndex                                                 *)
(***************************************************************************)

\* C7: for every record of the store, extract_keywords of the stored text
\* is the stored keyword set
C7_KeywordsOfStoredText ==
    \A i \in DOMAIN movies_db :
        extract_keywords(movies_db[i].v.text) = movies_db[i].v.keywords

\* C8: every record of the store has a non-empty title of at most 80
\* characters, and the title "Unknown Movie" when the message had neither
\* text nor caption
C8_TitleNonEmptyCapped ==
    \A i \in DOMAIN movies_db :
        /\ movies_db[i].v.title # ""
        /\ Len(movies_db[i].v.title) <= 80
        /\ movies_db[i].v.text = "" => movies_db[i].v.title = "Unknown Movie"

\* C16: every keyword of every record of the store is made only of lowercase
\* letters and digits, is longer than 2 characters and is no stop word
C16_KeywordsAreAlphanumeric ==
    \A i \in DOMAIN movies_db :
        \A w \in movies_db[i].v.keywords :
            /\ \A j \in 1..Len(w) : Ch(w, j) \in LowerLetters \cup Digits
            /\ Len(w) > 2
            /\ w \notin stop_words

(***************************************************************************)
(* Properties of SpecRestart                                               *)
(***************************************************************************)

\* C11: once a save has succeeded, the file stays a complete document that
\* load_db can load, and it changes only by a complete save of the store: a
\* save_db that fails while writing leaves the file of the previous
\* successful save
C11_FailedSaveKeepsPreviousFile ==
    [][disk.kind = "json" =>
          /\ LoadOk(disk')
          /\ disk' # disk => disk' = save_db(movies_db', disk, "ok")]_vars

\* C12: a step in which save_db succeeds leaves a file from which load_db
\* builds a store equal to the saved one: the same integer keys in the same
\* order, the same fields, keywords as the same sets
C12_SaveThenLoadRoundTrip ==
    [][disk' # disk /\ disk'.kind = "json" =>
          /\ load_db(disk') = movies_db'
          /\ \A i \in DOMAIN movies_db' :
                /\ load_db(disk')[i].k = movies_db'[i].k
                /\ load_db(disk')[i].k \in Int
                /\ load_db(disk')[i].v.keywords = movies_db'[i].v.keywords]_vars

\* C12 witness: the process was started again on a saved file of two
\* records, one of them with keywords and without a date, and load_db has
\* built the store from it
C12_Witness ==
    /\ disk.kind = "json"
    /\ Len(disk.data) = 2
    /\ last_indexed = None
    /\ \A h \in Handlers : index_task[h] = IdleTask("")
    /\ movies_db = load_db(disk)
    /\ \E i \in DOMAIN movies_db :
          /\ movies_db[i].v.keywords = {"money", "heist"}
          /\ movies_db[i].v.date = None

\* the ids of the range of handler h's scan that the saved file holds
SavedInRange(h) ==
    Keys(load_db(disk)) \cap (index_task[h].start_id..index_task[h].end_id)

\* C13: a scan started after an interrupted one (the process was started
\* again and no scan has ended since, so last_indexed is None although a file
\* was saved) makes its first request for an id not below the highest id of
\* its range that the saved file holds
C13_ScanResumesFromHighestId ==
    \A h \in Handlers :
        /\ index_task[h].pc = "get_messages"
        /\ index_task[h].log = <<>>
        /\ last_indexed = None
        /\ disk.kind = "json"
        /\ SavedInRange(h) # {}
        => \A id \in SavedInRange(h) : index_task[h].msg_id >= id

(***************************************************************************)
(* Properties of SpecMedia                                                 *)
(***************************************************************************)

\* C14 (one message): a call index_message(m) that returns True stores the
\* kind video when m.video is set, else document when m.document is set,
\* else photo when m.photo is set, else None
C14_Kind(m, r) ==
    IndexCall(m, r) /\ r.ret
    => Get(movies_db', m.id).media_type =
          CASE m.video -> "video"
            [] ~m.video /\ m.document -> "document"
            [] ~m.video /\ ~m.document /\ m.photo -> "photo"
            [] ~m.video /\ ~m.document /\ ~m.photo -> None

\* C14: for every indexed message, whatever combination of the three media
\* attributes it carries, the stored media kind follows the priority video,
\* document, photo, none
C14_MediaKindByPriority ==
    [][vars' # vars =>
          \A m \in MediaPosts : C14_Kind(m, index_message(movies_db, m))]_vars

\* C14 witness: a scan has indexed post 1 when it carried no caption, and the
\* record it stored has the kind document
C14_Witness ==
    /\ Returned(index_task["h1"])
    /\ index_task["h1"].log = <<[id |-> 1, outcome |-> "indexed"]>>
    /\ Keys(movies_db) = {1}
    /\ Get(movies_db, 1).text = ""
    /\ Get(movies_db, 1).media_type = "document"

\* the message has a non-empty text or caption, or a media attribute
HasTextOrMedia(m) ==
    Truthy(Content(m.text, m.caption)) \/ m.video \/ m.document \/ m.photo

\* C15 (one message): a call index_message(m) returns True and stores a
\* record exactly when m has text or a media attribute, leaves the store as
\* it was when it returns False, and stores no kind only for a message
\* without media attribute
C15_Accepts(m, r) ==
    IndexCall(m, r)
    => /\ r.ret <=> HasTextOrMedia(m)
       /\ ~r.ret => movies_db' = movies_db
       /\ r.ret /\ Get(movies_db', m.id).media_type = None
          => ~(m.video \/ m.document \/ m.photo)

\* C15: index_message skips a message exactly when its text is empty and it
\* carries no media attribute
C15_SkipsOnlyEmptyMessages ==
    [][vars' # vars =>
          \A m \in MediaPosts : C15_Accepts(m, index_message(movies_db, m))]_vars

(***************************************************************************)
(* Properties of SpecAuto                                                  *)
(***************************************************************************)

\* C17: auto-indexing writes the file only when the post it indexed is the
\* 10th new post since the file was last written or loaded
C17_AutoSavesEveryTenthNewPost ==
    [][LoadOk(disk) /\ disk' # disk =>
          Cardinality(Keys(movies_db') \ Keys(load_db(disk))) = AutoSaveEvery]_vars

(***************************************************************************)
(* Properties of SpecRace                                                  *)
(***************************************************************************)

\* C18: at no time are two scans active
C18_AtMostOneScanActive ==
    \A h1, h2 \in Handlers : ScanActive(h1) /\ ScanActive(h2) => h1 = h2

\* C19: the flag is true exactly when some scan is active
C19_FlagIffScanActive ==
    indexing_in_progress <=> \E h \in Handlers : ScanActive(h)

(***************************************************************************)
(* Properties of SpecLive                                                  *)
(***************************************************************************)

\* handler h takes an /index command
CommandStep(h) ==
    index_task[h].pc = "idle" /\ index_task'[h] # index_task[h]

\* C20: every scan that is active eventually has returned with the flag
\* false, and an /index command handled while the flag is false is not
\* answered "busy"
C20_ScanEventuallyFinishes ==
    /\ \A h \in Handlers :
          ScanActive(h) ~> (Returned(index_task[h]) /\ ~indexing_in_progress)
    /\ [][\A h \in Handlers :
            CommandStep(h) /\ ~indexing_in_progress =>
                index_task'[h].said # "busy"]_vars

\* a scan has finished and the /index command that came after it was
\* accepted
C20_Witness ==
    /\ index_task["h2"] = IdleTask("complete")
    /\ index_task["h1"].pc = "reply"
    /\ ~indexing_in_progress

====
